---- MODULE Spec2Model ----
(***************************************************************************)
(* A model of FindTriangles.cpp: the intersection calculator, the          *)
(* intersection aggregator and the triangle enumerator, over IEEE-754      *)
(* binary32 coordinates (the `float` members of `point`).                  *)
(***************************************************************************)
EXTENDS Integers, Sequences, FiniteSets

(***************************************************************************)
(* binary32 arithmetic.  A float is <<m, e>> with value m * 2^e, where m   *)
(* is 0 (and then e = 0) or an odd integer of at most MantBits bits.  The  *)
(* exponent is unbounded: no value of the model comes near the overflow or *)
(* underflow thresholds of binary32.  Every operation rounds its exact     *)
(* result to nearest, ties to even, as the hardware does.                  *)
(***************************************************************************)
MantBits == 24

Pow2(n) == 2 ^ n

Abs(n) == IF n < 0 THEN -n ELSE n

Sgn(n) == IF n < 0 THEN -1 ELSE IF n > 0 THEN 1 ELSE 0

Max(a, b) == IF a >= b THEN a ELSE b

\* the number of bits of n, 0 <= n < 2^31
BitLen4(n) ==
    IF n < 4 THEN (IF n < 2 THEN n ELSE 2) ELSE (IF n < 8 THEN 3 ELSE 4)

BitLen8(n) == IF n < 16 THEN BitLen4(n) ELSE 4 + BitLen4(n \div 16)

BitLen16(n) == IF n < 256 THEN BitLen8(n) ELSE 8 + BitLen8(n \div 256)

BitLen(n) == IF n < 65536 THEN BitLen16(n) ELSE 16 + BitLen16(n \div 65536)

\* the canonical form of m * 2^e, m >= 0
RECURSIVE Strip(_, _)
Strip(m, e) ==
    IF m = 0 THEN <<0, 0>>
    ELSE IF m % 2 = 0 THEN Strip(m \div 2, e + 1)
    ELSE <<m, e>>

\* m * 2^e (m >= 0) rounded to MantBits significant bits, ties to even
RoundNE(m, e) ==
    LET k == BitLen(m) - MantBits IN
    IF k <= 0 THEN Strip(m, e)
    ELSE LET q == m \div Pow2(k)
             r == m % Pow2(k)
             h == Pow2(k - 1)
             up == r > h \/ (r = h /\ q % 2 = 1)
         IN  Strip(IF up THEN q + 1 ELSE q, e + k)

WithSign(s, f) == <<s * f[1], f[2]>>

FNeg(a) == <<-a[1], a[2]>>

FAbs(a) == <<Abs(a[1]), a[2]>>

\* an int literal converted to float (exact below 2^MantBits)
F(n) == WithSign(Sgn(n), RoundNE(Abs(n), 0))

Zero == <<0, 0>>

One == <<1, 0>>

\* |m| * 2^e placed in units of 2^(E-1); the last bit is the sticky bit
Align(m, e, E) ==
    LET sh == e - E IN
    IF sh >= 0 THEN 2 * (Abs(m) * Pow2(sh))
    ELSE IF -sh > MantBits THEN 1
    ELSE 2 * (Abs(m) \div Pow2(-sh))
         + (IF Abs(m) % Pow2(-sh) = 0 THEN 0 ELSE 1)

FAdd(a, b) ==
    IF a[1] = 0 THEN b
    ELSE IF b[1] = 0 THEN a
    ELSE IF a = FNeg(b) THEN Zero
    ELSE LET T == Max(a[2] + BitLen(Abs(a[1])), b[2] + BitLen(Abs(b[1])))
             E == T - (MantBits + 3)
             s == Sgn(a[1]) * Align(a[1], a[2], E)
                  + Sgn(b[1]) * Align(b[1], b[2], E)
         IN  WithSign(Sgn(s), RoundNE(Abs(s), E - 1))

FSub(a, b) == FAdd(a, FNeg(b))

\* the product of two mantissas as <<hi, lo>>, hi * 2^24 + lo, by 12-bit limbs
MulWide(x, y) ==
    LET L == Pow2(12)
        x1 == x \div L
        x0 == x % L
        y1 == y \div L
        y0 == y % L
        mid == x1 * y0 + x0 * y1
        low == (mid % L) * L + x0 * y0
    IN  <<x1 * y1 + mid \div L + low \div Pow2(24), low % Pow2(24)>>

FMul(a, b) ==
    LET x == Abs(a[1])
        y == Abs(b[1])
        s == Sgn(a[1]) * Sgn(b[1])
    IN  IF s = 0 THEN Zero
        ELSE IF BitLen(x) + BitLen(y) <= 30
        THEN WithSign(s, RoundNE(x * y, a[2] + b[2]))
        ELSE LET w == MulWide(x, y)
                 h == BitLen(w[1])
                 q == w[1] * Pow2(24 - h) + w[2] \div Pow2(h)
                 r == w[2] % Pow2(h)
                 up == r > Pow2(h - 1) \/ (r = Pow2(h - 1) /\ q % 2 = 1)
             IN  WithSign(s, Strip(IF up THEN q + 1 ELSE q, a[2] + b[2] + h))

\* n further quotient bits of r / d by long division: <<quotient, remainder>>
RECURSIVE DivBits(_, _, _, _)
DivBits(q, r, d, n) ==
    IF n = 0 THEN <<q, r>>
    ELSE IF 2 * r >= d THEN DivBits(2 * q + 1, 2 * r - d, d, n - 1)
    ELSE DivBits(2 * q, 2 * r, d, n - 1)

\* a / b, b # 0
FDiv(a, b) ==
    LET x == Abs(a[1])
        y == Abs(b[1])
        s == Sgn(a[1]) * Sgn(b[1])
        sx == MantBits - BitLen(x)
        sy == MantBits - BitLen(y)
        nx == x * Pow2(sx)
        ny == y * Pow2(sy)
        qr == DivBits(nx \div ny, nx % ny, ny, MantBits + 1)
        w == 2 * qr[1] + (IF qr[2] = 0 THEN 0 ELSE 1)
    IN  IF s = 0 THEN Zero
        ELSE WithSign(s, RoundNE(w, (a[2] - sx) - (b[2] - sy) - (MantBits + 2)))

\* the sign of a - b for a, b > 0: the higher leading bit decides, then the
\* mantissas aligned at their leading bits
CmpPos(a, b) ==
    LET la == BitLen(a[1])
        lb == BitLen(b[1])
    IN  IF a[2] + la # b[2] + lb THEN Sgn((a[2] + la) - (b[2] + lb))
        ELSE Sgn(a[1] * Pow2(MantBits - la) - b[1] * Pow2(MantBits - lb))

\* the sign of a - b
FCmp(a, b) ==
    IF Sgn(a[1]) # Sgn(b[1]) THEN Sgn(Sgn(a[1]) - Sgn(b[1]))
    ELSE IF a[1] = 0 THEN 0
    ELSE IF a[1] > 0 THEN CmpPos(a, b)
    ELSE CmpPos(FNeg(b), FNeg(a))

FLess(a, b) == FCmp(a, b) < 0

FGreater(a, b) == FCmp(a, b) > 0

(***************************************************************************)
(* Geometry primitives.                                                    *)
(***************************************************************************)
\* the double .00001 lies strictly between the floats 10995116 * 2^-40 and
\* 10995117 * 2^-40: a float is below it iff it is below the second
compare_tolerance == <<10995117, -40>>

\* abs(v) < compare_tolerance
BelowTolerance(v) == FLess(FAbs(v), compare_tolerance)

point(x, y) == [x |-> x, y |-> y]

\* point::operator==
PointEq(p, other) ==
    /\ BelowTolerance(FSub(p.x, other.x))
    /\ BelowTolerance(FSub(p.y, other.y))

\* line_segment(a, b, c, d), from int literals
line_segment(a, b, c, d) == [p1 |-> point(F(a), F(b)), p2 |-> point(F(c), F(d))]

triangle(p1, p2, p3) == [p1 |-> p1, p2 |-> p2, p3 |-> p3]

\* a find that compares the coordinates exactly
find_point_exact(points, pt) == \E k \in 1..Len(points) : points[k] = pt

find_point(points, pt) == \E k \in 1..Len(points) : PointEq(points[k], pt)

(***************************************************************************)
(* The intersection calculator.                                            *)
(***************************************************************************)
\* x1_x2 * y3_y4 - y1_y2 * x3_x4
Denominator(A, B, C, D) ==
    FSub(FMul(FSub(A.x, B.x), FSub(C.y, D.y)),
         FMul(FSub(A.y, B.y), FSub(C.x, D.x)))

\* x1_x3 * y3_y4 - y1_y3 * x3_x4
TNumerator(A, B, C, D) ==
    FSub(FMul(FSub(A.x, C.x), FSub(C.y, D.y)),
         FMul(FSub(A.y, C.y), FSub(C.x, D.x)))

\* x1_x3 * y1_y2 - y1_y3 * x1_x2
UNumerator(A, B, C, D) ==
    FSub(FMul(FSub(A.x, C.x), FSub(A.y, B.y)),
         FMul(FSub(A.y, C.y), FSub(A.x, B.x)))

\* t < 0 || t > 1
OutOfRange(t) == FLess(t, Zero) \/ FGreater(t, One)

\* point(x1 + t * x2_x1, y1 + t * y2_y1)
PointAt(A, B, t) ==
    point(FAdd(A.x, FMul(t, FSub(B.x, A.x))),
          FAdd(A.y, FMul(t, FSub(B.y, A.y))))

NoIntersection == [ret |-> FALSE, pt |-> point(Zero, Zero)]

calc_intersection(A, B, C, D) ==
    LET denominator == Denominator(A, B, C, D)
        t == FDiv(TNumerator(A, B, C, D), denominator)
        u == FDiv(UNumerator(A, B, C, D), denominator)
    IN  IF BelowTolerance(denominator) THEN NoIntersection
        ELSE IF OutOfRange(t) THEN NoIntersection
        ELSE IF OutOfRange(u) THEN NoIntersection
        ELSE [ret |-> TRUE, pt |-> PointAt(A, B, t)]

\* the overload on two line segments
calc_intersection_ls(ls1, ls2) == calc_intersection(ls1.p1, ls1.p2, ls2.p1, ls2.p2)

(***************************************************************************)
(* Inputs.                                                                 *)
(***************************************************************************)
\* the longest segment list drawn from the catalogue
MaxSegs == 4

\* the segments the input lists are drawn from: two collinear overlapping
\* pairs (the first and the fourth, the second and the fifth), four segments
\* through (200/3, 200/3), and pairs that touch at an endpoint
Catalogue ==
    { line_segment(0, 0, 200, 200),
      line_segment(200, 0, 0, 100),
      line_segment(0, 0, 0, 200),
      line_segment(100, 100, 0, 0),
      line_segment(0, 100, 200, 0) }

\* the segments hardcoded in main
line_segments ==
    << line_segment(5, 1, 9, 9),
       line_segment(4, 3, 7, 9),
       line_segment(3, 5, 5, 9),
       line_segment(2, 7, 3, 9),
       line_segment(5, 1, 1, 9),
       line_segment(6, 3, 3, 9),
       line_segment(7, 5, 5, 9),
       line_segment(8, 7, 7, 9),
       line_segment(4, 3, 6, 3),
       line_segment(3, 5, 7, 5),
       line_segment(2, 7, 8, 7),
       line_segment(1, 9, 9, 9) >>

\* five segments of the catalogue: four of them pass through (200/3, 200/3),
\* where the computed intersections differ in their last bits
concurrent_segments ==
    << line_segment(0, 0, 200, 200),
       line_segment(200, 0, 0, 100),
       line_segment(0, 0, 0, 200),
       line_segment(100, 100, 0, 0),
       line_segment(0, 100, 200, 0) >>

\* five segments of the catalogue, one of them three times
repeated_segments ==
    << line_segment(0, 0, 0, 200),
       line_segment(200, 0, 0, 100),
       line_segment(0, 0, 200, 200),
       line_segment(0, 0, 200, 200),
       line_segment(0, 0, 200, 200) >>

Inputs ==
    (UNION {[1..n -> Catalogue] : n \in 0..MaxSegs})
        \cup {line_segments, concurrent_segments, repeated_segments}

\* the coordinates the endpoints of the intersection calculator's inputs
\* are drawn from
XCoords == {0, 100, 200}

YCoords == {0, 100, 200, 700}

GridPoints == {point(F(x), F(y)) : x \in XCoords, y \in YCoords}

(***************************************************************************)
(* State.                                                                  *)
(***************************************************************************)
VARIABLES
    segments,           \* the input of calc_triangles(segments, triangles)
    intersects,         \* vector<vector<point>> intersects
    triangles,          \* vector<triangle> triangles
    pc,                 \* the function the run is in
    i, j,               \* the loop indices of calc_intersections
    segment_one_index,  \* the outer loop index of calc_triangles
    ret, intersect_pt,  \* the last result of calc_intersection in the aggregator
    out_of_range,       \* an index outside its vector was used
    examined,           \* history: the index pairs the aggregator examined
    origin,             \* history: the loop indices that emitted each triangle
    ls1, ls2,           \* the arguments of a call of calc_intersection
    forward, reverse    \* its results for (ls1, ls2) and for (ls2, ls1)

vars == <<segments, intersects, triangles, pc, i, j, segment_one_index, ret,
          intersect_pt, out_of_range, examined, origin, ls1, ls2, forward,
          reverse>>

pipeline_vars == <<segments, intersects, triangles, pc, i, j,
                   segment_one_index, ret, intersect_pt, out_of_range,
                   examined, origin>>

call_vars == <<ls1, ls2, forward, reverse>>

NotCalled == [ret |-> FALSE, pt |-> point(Zero, Zero), called |-> FALSE]

Called(r) == [ret |-> r.ret, pt |-> r.pt, called |-> TRUE]

\* vectors are indexed from 0
At(v, k) == v[k + 1]

InRange(v, k) == 0 <= k /\ k < Len(v)

(***************************************************************************)
(* calc_triangles(segments, triangles): the aggregator, then the           *)
(* enumerator.                                                             *)
(***************************************************************************)
\* static_cast<int>(segments.size()) - 1, the bound of the outer loop of
\* calc_intersections
IsectOuterLimit(n) == n - 1

\* the bound of the outer loop of calc_triangles computed on the unsigned
\* size: below two segments it wraps to a huge value
TriOuterLimitUnsigned(n) == IF n >= 2 THEN n - 2 ELSE 2147483647

\* a third loop that stops one segment early
TriThirdLimitShort(n) == n - 1

\* num_line_segments - 2, - 1 and - 0: the bounds of the three index loops of
\* calc_triangles
TriOuterLimit(n) == n - 2

TriSecondLimit(n) == n - 1

TriThirdLimit(n) == n

\* if (!find_point(points, pt)) points.push_back(pt);
AddDistinct(points, pt) == IF find_point(points, pt) THEN points ELSE Append(points, pt)

\* a loop body that does not test the result of calc_intersection
IsectBodyUnchecked(ints, a, b, r) ==
    [ints EXCEPT ![a + 1] = AddDistinct(@, r.pt),
                 ![b + 1] = AddDistinct(@, r.pt)]

\* a loop body that records the intersection for the first segment only
IsectBodyFirstOnly(ints, a, b, r) ==
    IF r.ret THEN [ints EXCEPT ![a + 1] = AddDistinct(@, r.pt)] ELSE ints

\* the body of the inner loop of calc_intersections for the pair (a, b),
\* r the result of calc_intersection(segments[a], segments[b], intersect_pt)
IsectBody(ints, a, b, r) ==
    IF r.ret
    THEN [ints EXCEPT ![a + 1] = AddDistinct(@, r.pt),
                      ![b + 1] = AddDistinct(@, r.pt)]
    ELSE ints

\* for (point& last_point : intersects[segment_three_index]), from the
\* c-th point on: the triangles emplaced, each with the loop indices
RECURSIVE LastLoop(_, _, _, _, _, _, _)
LastLoop(ints, s1, s2, s3, start_point, middle_point, c) ==
    IF c > Len(At(ints, s3)) THEN <<>>
    ELSE LET last_point == At(ints, s3)[c] IN
         (IF PointEq(last_point, middle_point)
             \/ ~find_point(At(ints, s1), last_point)
          THEN <<>>
          ELSE << [tri |-> triangle(start_point, middle_point, last_point),
                   idx |-> <<s1, s2, s3>>] >>)
         \o LastLoop(ints, s1, s2, s3, start_point, middle_point, c + 1)

\* for (segment_three_index = ...; segment_three_index < num_line_segments;
\* ++segment_three_index), from s3 on
RECURSIVE ThirdLoop(_, _, _, _, _, _)
ThirdLoop(ints, s1, s2, start_point, middle_point, s3) ==
    IF ~(s3 < TriThirdLimit(Len(ints))) THEN <<>>
    ELSE (IF ~find_point(At(ints, s3), middle_point) THEN <<>>
          ELSE LastLoop(ints, s1, s2, s3, start_point, middle_point, 1))
         \o ThirdLoop(ints, s1, s2, start_point, middle_point, s3 + 1)

\* for (point& middle_point : intersects[segment_two_index]), from the b-th
\* point on
RECURSIVE MiddleLoop(_, _, _, _, _)
MiddleLoop(ints, s1, s2, start_point, b) ==
    IF b > Len(At(ints, s2)) THEN <<>>
    ELSE LET middle_point == At(ints, s2)[b] IN
         (IF PointEq(middle_point, start_point) THEN <<>>
          ELSE ThirdLoop(ints, s1, s2, start_point, middle_point, s2 + 1))
         \o MiddleLoop(ints, s1, s2, start_point, b + 1)

\* for (segment_two_index = ...; segment_two_index < num_line_segments - 1;
\* ++segment_two_index), from s2 on
RECURSIVE SecondLoop(_, _, _, _)
SecondLoop(ints, s1, start_point, s2) ==
    IF ~(s2 < TriSecondLimit(Len(ints))) THEN <<>>
    ELSE (IF ~find_point(At(ints, s2), start_point) THEN <<>>
          ELSE MiddleLoop(ints, s1, s2, start_point, 1))
         \o SecondLoop(ints, s1, start_point, s2 + 1)

\* for (point& start_point : intersects[segment_one_index]), from the a-th
\* point on
RECURSIVE StartLoop(_, _, _)
StartLoop(ints, s1, a) ==
    IF a > Len(At(ints, s1)) THEN <<>>
    ELSE SecondLoop(ints, s1, At(ints, s1)[a], s1 + 1)
         \o StartLoop(ints, s1, a + 1)

\* vector<vector<point>> intersects; intersects.resize(segments.size());
Enter ==
    /\ pc = "calc_triangles"
    /\ intersects' = [k \in 1..Len(segments) |-> <<>>]
    /\ pc' = "calc_intersections"
    /\ i' = 0
    /\ j' = 1
    /\ UNCHANGED <<segments, triangles, segment_one_index, ret, intersect_pt,
                   out_of_range, examined, origin>>
    /\ UNCHANGED call_vars

\* one iteration of the inner loop of calc_intersections
IsectStep ==
    /\ pc = "calc_intersections"
    /\ i < IsectOuterLimit(Len(segments))
    /\ j < Len(segments)
    /\ IF InRange(segments, i) /\ InRange(segments, j)
       THEN LET r == calc_intersection_ls(At(segments, i), At(segments, j)) IN
            /\ ret' = r.ret
            /\ intersect_pt' = r.pt
            /\ intersects' = IsectBody(intersects, i, j, r)
            /\ examined' = Append(examined, <<i, j>>)
            /\ IF j + 1 < Len(segments)
               THEN i' = i /\ j' = j + 1
               ELSE i' = i + 1 /\ j' = i + 2
            /\ UNCHANGED <<pc, out_of_range>>
       ELSE /\ out_of_range' = TRUE
            /\ pc' = "done"
            /\ UNCHANGED <<intersects, i, j, ret, intersect_pt, examined>>
    /\ UNCHANGED <<segments, triangles, segment_one_index, origin>>
    /\ UNCHANGED call_vars

\* the loops of calc_intersections end; calc_triangles(intersects, triangles)
IsectExit ==
    /\ pc = "calc_intersections"
    /\ ~(i < IsectOuterLimit(Len(segments)) /\ j < Len(segments))
    /\ pc' = "enumerate"
    /\ segment_one_index' = 0
    /\ UNCHANGED <<segments, intersects, triangles, i, j, ret, intersect_pt,
                   out_of_range, examined, origin>>
    /\ UNCHANGED call_vars

\* one iteration of the outer loop of calc_triangles(intersects, triangles)
TriStep ==
    /\ pc = "enumerate"
    /\ segment_one_index < TriOuterLimit(Len(intersects))
    /\ IF InRange(intersects, segment_one_index)
       THEN LET found == StartLoop(intersects, segment_one_index, 1) IN
            /\ triangles' = triangles \o [k \in 1..Len(found) |-> found[k].tri]
            /\ origin' = origin \o [k \in 1..Len(found) |-> found[k].idx]
            /\ segment_one_index' = segment_one_index + 1
            /\ UNCHANGED <<pc, out_of_range>>
       ELSE /\ out_of_range' = TRUE
            /\ pc' = "done"
            /\ UNCHANGED <<triangles, origin, segment_one_index>>
    /\ UNCHANGED <<segments, intersects, i, j, ret, intersect_pt, examined>>
    /\ UNCHANGED call_vars

\* return static_cast<int>(triangles.size());
TriExit ==
    /\ pc = "enumerate"
    /\ ~(segment_one_index < TriOuterLimit(Len(intersects)))
    /\ pc' = "done"
    /\ UNCHANGED <<segments, intersects, triangles, i, j, segment_one_index,
                   ret, intersect_pt, out_of_range, examined, origin>>
    /\ UNCHANGED call_vars

Init ==
    /\ segments \in Inputs
    /\ intersects = <<>>
    /\ triangles = <<>>
    /\ pc = "calc_triangles"
    /\ i = 0
    /\ j = 0
    /\ segment_one_index = 0
    /\ ret = FALSE
    /\ intersect_pt = point(Zero, Zero)
    /\ out_of_range = FALSE
    /\ examined = <<>>
    /\ origin = <<>>
    /\ ls1 = line_segment(0, 0, 0, 0)
    /\ ls2 = line_segment(0, 0, 0, 0)
    /\ forward = NotCalled
    /\ reverse = NotCalled

Next == Enter \/ IsectStep \/ IsectExit \/ TriStep \/ TriExit

Spec == Init /\ [][Next]_vars

(***************************************************************************)
(* The intersection calculator alone, called on two segments and on the    *)
(* same two segments swapped.                                              *)
(***************************************************************************)
CallForward ==
    /\ pc = "calc_intersection"
    /\ ~forward.called
    /\ forward' = Called(calc_intersection_ls(ls1, ls2))
    /\ UNCHANGED <<ls1, ls2, reverse>>
    /\ UNCHANGED pipeline_vars

CallReverse ==
    /\ pc = "calc_intersection"
    /\ ~reverse.called
    /\ reverse' = Called(calc_intersection_ls(ls2, ls1))
    /\ UNCHANGED <<ls1, ls2, forward>>
    /\ UNCHANGED pipeline_vars

InitCall ==
    /\ segments = <<>>
    /\ intersects = <<>>
    /\ triangles = <<>>
    /\ pc = "calc_intersection"
    /\ i = 0
    /\ j = 0
    /\ segment_one_index = 0
    /\ ret = FALSE
    /\ intersect_pt = point(Zero, Zero)
    /\ out_of_range = FALSE
    /\ examined = <<>>
    /\ origin = <<>>
    /\ ls1 \in [p1 : GridPoints, p2 : GridPoints]
    /\ ls2 \in [p1 : GridPoints, p2 : GridPoints]
    /\ forward = NotCalled
    /\ reverse = NotCalled

NextCall == CallForward \/ CallReverse

SpecCall == InitCall /\ [][NextCall]_vars

(***************************************************************************)
(* Properties.                                                             *)
(***************************************************************************)
Segs == Len(segments)

Indices == 0..(Segs - 1)

\* the intersection the aggregator computes for the index pair a < b
Isect(a, b) == calc_intersection_ls(At(segments, a), At(segments, b))

Distinct3(p, q, r) == ~PointEq(p, q) /\ ~PointEq(q, r) /\ ~PointEq(r, p)

Finished == pc = "done" /\ ~out_of_range

\* the value of a float with a non-negative exponent, as an integer
IntOf(f) == f[1] * Pow2(f[2])

\* the two segments have the same direction: the exact cross product is 0
Parallel(s, t) ==
    (IntOf(s.p1.x) - IntOf(s.p2.x)) * (IntOf(t.p1.y) - IntOf(t.p2.y))
        = (IntOf(s.p1.y) - IntOf(s.p2.y)) * (IntOf(t.p1.x) - IntOf(t.p2.x))

IsPrefix(s, t) == Len(s) <= Len(t) /\ \A k \in 1..Len(s) : s[k] = t[k]

\* C1: every emitted triangle (P, Q, R) comes from indices i < j < k with P in
\* the sets of segments i and j, Q in the sets of j and k, R in the sets of k
\* and i, and P, Q, R pairwise distinct under the approximate equality.
C1_CycleValid ==
    \A n \in 1..Len(triangles) :
        LET t == triangles[n] IN
        /\ Distinct3(t.p1, t.p2, t.p3)
        /\ \E a \in Indices, b \in Indices, c \in Indices :
               /\ a < b
               /\ b < c
               /\ find_point(At(intersects, a), t.p1)
               /\ find_point(At(intersects, b), t.p1)
               /\ find_point(At(intersects, b), t.p2)
               /\ find_point(At(intersects, c), t.p2)
               /\ find_point(At(intersects, c), t.p3)
               /\ find_point(At(intersects, a), t.p3)

\* C2: when the run has finished, for every i < j < k whose segments pairwise
\* intersect at three pairwise distinct points, the triangle of the three
\* intersections has been emitted.
C2_Complete ==
    Finished =>
        \A a \in Indices, b \in Indices, c \in Indices :
            (/\ a < b
             /\ b < c
             /\ Isect(a, b).ret
             /\ Isect(b, c).ret
             /\ Isect(a, c).ret
             /\ Distinct3(Isect(a, b).pt, Isect(b, c).pt, Isect(a, c).pt))
            => \E n \in 1..Len(triangles) :
                   /\ PointEq(triangles[n].p1, Isect(a, b).pt)
                   /\ PointEq(triangles[n].p2, Isect(b, c).pt)
                   /\ PointEq(triangles[n].p3, Isect(a, c).pt)

\* the index triples whose segments pairwise intersect at three distinct points
ClosingTriples ==
    {tr \in Indices \X Indices \X Indices :
        /\ tr[1] < tr[2]
        /\ tr[2] < tr[3]
        /\ Isect(tr[1], tr[2]).ret
        /\ Isect(tr[2], tr[3]).ret
        /\ Isect(tr[1], tr[3]).ret
        /\ Distinct3(Isect(tr[1], tr[2]).pt, Isect(tr[2], tr[3]).pt,
                     Isect(tr[1], tr[3]).pt)}

\* C3: on the 12 segments of main the run ends with 27 triangles, one for
\* each segment triple that closes a triangle.
C3_ReferenceCount ==
    (segments = line_segments /\ Finished) =>
        /\ Len(triangles) = 27
        /\ Cardinality(ClosingTriples) = 27
        /\ {origin[n] : n \in 1..Len(origin)} = ClosingTriples

C3_Witness == segments = line_segments /\ Finished /\ Len(triangles) = 27

\* C4: with at most two segments no triangle is ever emitted and no index
\* leaves its vector.
C4_FewSegments == Segs <= 2 => (triangles = <<>> /\ ~out_of_range)

\* two segments that cross at one point, the run finished
C4_Witness ==
    /\ Finished
    /\ Segs = 2
    /\ examined = <<(<<0, 1>>)>>
    /\ Len(At(intersects, 0)) = 1
    /\ Len(At(intersects, 1)) = 1

SmallDenominator(s, t) == BelowTolerance(Denominator(s.p1, s.p2, t.p1, t.p2))

\* C5: for a pair of segments whose denominator is below the tolerance, and
\* so for every parallel or collinear pair, calc_intersection returns false
\* and leaves the point at (0, 0), and the aggregator adds nothing to any set.
C5_ParallelSkipped ==
    [][(/\ pc = "calc_intersections"
        /\ i < Segs - 1
        /\ j < Segs
        /\ \/ SmallDenominator(At(segments, i), At(segments, j))
           \/ Parallel(At(segments, i), At(segments, j)))
       => (/\ examined' = Append(examined, <<i, j>>)
           /\ ret' = FALSE
           /\ intersect_pt' = point(Zero, Zero)
           /\ intersects' = intersects)]_vars

\* the pair just examined is collinear and overlapping, and other pairs have
\* put points in the sets
C5_Witness ==
    /\ Len(examined) > 0
    /\ LET e == examined[Len(examined)] IN
       /\ At(segments, e[1]) = line_segment(0, 0, 200, 200)
       /\ At(segments, e[2]) = line_segment(100, 100, 0, 0)
    /\ ~ret
    /\ intersect_pt = point(Zero, Zero)
    /\ \E k \in 1..Len(intersects) : intersects[k] # <<>>

InUnit(t) == ~FLess(t, Zero) /\ ~FGreater(t, One)

\* C6: for two non-parallel segments calc_intersection finds an intersection
\* exactly when t and u are both in [0, 1]; the point returned is A + t(B - A),
\* and when t or u is 0 or 1 it is the endpoint the segments touch at.
C6_BoundaryInclusion ==
    forward.called =>
        LET A == ls1.p1
            B == ls1.p2
            C == ls2.p1
            D == ls2.p2
            denominator == Denominator(A, B, C, D)
            t == FDiv(TNumerator(A, B, C, D), denominator)
            u == FDiv(UNumerator(A, B, C, D), denominator)
        IN  ~BelowTolerance(denominator) =>
                /\ forward.ret <=> (InUnit(t) /\ InUnit(u))
                /\ forward.ret =>
                       /\ forward.pt = PointAt(A, B, t)
                       /\ t = Zero => PointEq(forward.pt, A)
                       /\ t = One => PointEq(forward.pt, B)
                       /\ u = Zero => PointEq(forward.pt, C)
                       /\ u = One => PointEq(forward.pt, D)

\* C7: calc_intersection(A, B, C, D) and calc_intersection(C, D, A, B) agree
\* on whether there is an intersection and, when there is one, return points
\* that are equal within the tolerance.
C7_Symmetric ==
    (forward.called /\ reverse.called) =>
        /\ forward.ret = reverse.ret
        /\ forward.ret => PointEq(forward.pt, reverse.pt)

\* no set holds two approximately equal points
C8_Inv ==
    \A k \in 1..Len(intersects) :
        \A m \in 1..Len(intersects[k]), n \in 1..Len(intersects[k]) :
            m < n => ~PointEq(intersects[k][m], intersects[k][n])

\* a step of the aggregator appends the point found to the sets of the two
\* segments of the pair, to each unless that set holds an approximately equal
\* point, and changes no other set
C8_Act ==
    examined' # examined =>
        \A k \in 1..Len(intersects) :
            intersects'[k] =
                IF /\ ret'
                   /\ k - 1 \in {i, j}
                   /\ ~\E m \in 1..Len(intersects[k]) :
                          PointEq(intersects[k][m], intersect_pt')
                THEN Append(intersects[k], intersect_pt')
                ELSE intersects[k]

\* C8: at every step no set of a segment holds two approximately equal
\* points; a point is appended to a set only if that set, whatever the other
\* sets hold, has no approximately equal point.
C8_SetsDistinct == []C8_Inv /\ [][C8_Act]_vars

\* the point just found was left out of the first segment's set because that
\* set holds a point that is approximately equal to it, and not the same
C8_Witness ==
    /\ Len(examined) > 0
    /\ ret
    /\ LET s == At(intersects, examined[Len(examined)][1]) IN
       /\ \E m \in 1..Len(s) : PointEq(s[m], intersect_pt)
       /\ \A m \in 1..Len(s) : s[m] # intersect_pt

LexLess(p, q) == p[1] < q[1] \/ (p[1] = q[1] /\ p[2] < q[2])

C9_Inv ==
    /\ \A m \in 1..Len(examined) :
           0 <= examined[m][1] /\ examined[m][1] < examined[m][2]
               /\ examined[m][2] < Segs
    /\ \A m \in 1..(Len(examined) - 1) : LexLess(examined[m], examined[m + 1])
    /\ (pc \in {"enumerate", "done"} /\ ~out_of_range)
           => 2 * Len(examined) = Segs * (Segs - 1)
    /\ Finished =>
           \A a \in Indices, b \in Indices :
               (a < b /\ Isect(a, b).ret) =>
                   /\ find_point(At(intersects, a), Isect(a, b).pt)
                   /\ find_point(At(intersects, b), Isect(a, b).pt)
    /\ Finished =>
           \A a \in Indices :
               \A m \in 1..Len(At(intersects, a)) :
                   \E b \in Indices :
                       /\ b # a
                       /\ LET r == IF a < b THEN Isect(a, b) ELSE Isect(b, a)
                          IN  r.ret /\ r.pt = At(intersects, a)[m]

C9_Act ==
    Len(intersects') = Len(intersects) =>
        \A k \in 1..Len(intersects) : IsPrefix(intersects[k], intersects'[k])

\* C9: the aggregator examines every pair i < j once, in increasing order;
\* afterwards both sets of every intersecting pair hold a point approximately
\* equal to the intersection, every stored point is the computed intersection
\* of its segment with another one, and the sets only ever grow at the end.
C9_Aggregator == []C9_Inv /\ [][C9_Act]_vars

C9_Witness ==
    /\ Finished
    /\ Segs >= 3
    /\ Len(examined) >= 3
    /\ \E k \in 1..Len(intersects) : Len(intersects[k]) >= 2
    /\ \E a \in Indices, b \in Indices : a < b /\ ~Isect(a, b).ret

\* C10: no two emitted triangles come from the same index triple, and there
\* are at most as many triangles as index triples i < j < k.
C10_OncePerTriple ==
    /\ \A m \in 1..Len(origin), n \in 1..Len(origin) :
           m < n => origin[m] # origin[n]
    /\ 6 * Len(triangles) <= Segs * (Segs - 1) * (Segs - 2)

====
